---- MODULE Spec2Model ----
(***************************************************************************)
(* Patient ingestion-and-classification pipeline: the paginated fetcher    *)
(* (routes.py getPatients), the sanitizer (sanitizer.py), the risk scorer  *)
(* (risk_scorer.py) and the three classifiers.                             *)
(*                                                                         *)
(* Python values are tagged records [t, i, s]: t is the Python type, i the *)
(* integer payload and s the text payload (a sequence of one-character     *)
(* strings).  A finite float is kept in hundredths (i = 9960 is 99.6), so  *)
(* every threshold of the program (99.5, 99.6, 100.9, 101.0, 115) is exact *)
(* and values between two thresholds exist.  NaN and the infinities are    *)
(* separate tags with IEEE comparison semantics.  An exception is a value  *)
(* whose tag is the exception's class name.                                *)
(***************************************************************************)
EXTENDS Integers, Sequences, FiniteSets, TLC

VARIABLES
    \* ---- getPatients (routes.py) ----
    pc,             \* position: "attempt" | "page_end" | "done" | "raised"
    page,           \* routes.py:73
    has_next,       \* routes.py:74
    attempt,        \* loop variable of routes.py:81
    all_patients,   \* routes.py:70
    \* history of the upstream conversation (not program state)
    requested,      \* the page of each retry loop that issued a request, in order
    nreq,           \* number of requests issued for the current page
    all_ok,         \* every response so far was a 200
    status,         \* status code of the last response (0: RequestException)
    seen,           \* status codes answered so far for the current page
    waits,          \* backoff sleeps taken so far for the current page
    served,         \* for every 200 response consumed: page, raw items, hasNext
    delays,         \* number of inter-page sleeps taken (routes.py:138)
    \* ---- one record through sanitizer and classifiers ----
    rpc,            \* "raw" | "sanitized" | "classified" | "resanitized" | "raised"
    raw,            \* the raw record
    patient,        \* sanitize_patient(raw)
    flags,          \* the three classifiers' output for <<patient>>
    resanitized,    \* sanitize_patient(patient.to_dict())
    \* ---- a batch through the classifiers ----
    bpc,            \* "ingest" | "classified" | "scored"
    patients,       \* list of Patient
    high_risk_ids, fever_ids, data_quality_ids,
    totals,         \* calculate_total_risk of each patient
    breakdowns      \* get_risk_breakdown of each patient

fvars == <<pc, page, has_next, attempt, all_patients, requested, nreq, all_ok, status, seen,
           waits, served, delays>>
rvars == <<rpc, raw, patient, flags, resanitized>>
bvars == <<bpc, patients, high_risk_ids, fever_ids, data_quality_ids, totals, breakdowns>>
vars == <<fvars, rvars, bvars>>

-----------------------------------------------------------------------------
(* Python values *)

Val(t, i, s) == [t |-> t, i |-> i, s |-> s]
None == Val("NoneType", 0, <<>>)
Missing == Val("missing", 0, <<>>)      \* the key is absent from the mapping
PyStr(s) == Val("str", 0, s)
PyInt(n) == Val("int", n, <<>>)
PyBool(b) == Val("bool", IF b THEN 1 ELSE 0, <<>>)
PyFloat(h) == Val("float", h, <<>>)     \* h hundredths
NaN == Val("nan", 0, <<>>)
PosInf == Val("inf", 1, <<>>)
NegInf == Val("inf", -1, <<>>)
HugeInt == Val("hugeint", 0, <<>>)      \* an int beyond the range of a float
PyList == Val("list", 0, <<>>)
PyDict == Val("dict", 0, <<>>)
Exc(name) == Val(name, 0, <<>>)
IsExc(v) == v.t \in {"ValueError", "TypeError", "OverflowError", "AttributeError"}

-----------------------------------------------------------------------------
(* Text *)

Digits == <<"0", "1", "2", "3", "4", "5", "6", "7", "8", "9">>
Lower == <<"a", "b", "c", "d", "e", "f", "g", "h", "i", "j", "k", "l", "m",
           "n", "o", "p", "q", "r", "s", "t", "u", "v", "w", "x", "y", "z">>
Upper == <<"A", "B", "C", "D", "E", "F", "G", "H", "I", "J", "K", "L", "M",
           "N", "O", "P", "Q", "R", "S", "T", "U", "V", "W", "X", "Y", "Z">>

IsDigit(c) == \E k \in 1..10 : Digits[k] = c
DigitVal(c) == (CHOOSE k \in 1..10 : Digits[k] = c) - 1
IsSpace(c) == c \in {" ", "\t", "\n"}
AllDigits(s) == Len(s) > 0 /\ \A k \in 1..Len(s) : IsDigit(s[k])

UpperChar(c) ==
    IF \E k \in 1..26 : Lower[k] = c
    THEN Upper[CHOOSE k \in 1..26 : Lower[k] = c]
    ELSE c
str_upper(s) == [k \in 1..Len(s) |-> UpperChar(s[k])]

RECURSIVE lstrip(_)
lstrip(s) == IF Len(s) > 0 /\ IsSpace(Head(s)) THEN lstrip(Tail(s)) ELSE s
RECURSIVE rstrip(_)
rstrip(s) ==
    IF Len(s) > 0 /\ IsSpace(s[Len(s)]) THEN rstrip(SubSeq(s, 1, Len(s) - 1)) ELSE s
str_strip(s) == rstrip(lstrip(s))

\* s.split(sep) for a one-character separator: the list of parts
RECURSIVE str_split(_, _)
str_split(s, sep) ==
    IF \E k \in 1..Len(s) : s[k] = sep
    THEN LET k == CHOOSE j \in 1..Len(s) : s[j] = sep /\ \A m \in 1..(j - 1) : s[m] # sep
         IN  <<SubSeq(s, 1, k - 1)>> \o str_split(SubSeq(s, k + 1, Len(s)), sep)
    ELSE <<s>>

RECURSIVE DigitsValue(_)
DigitsValue(s) ==
    IF Len(s) = 0 THEN 0
    ELSE 10 * DigitsValue(SubSeq(s, 1, Len(s) - 1)) + DigitVal(s[Len(s)])

RECURSIVE NatToStr(_)
NatToStr(n) == IF n < 10 THEN <<Digits[n + 1]>> ELSE NatToStr(n \div 10) \o <<Digits[(n % 10) + 1]>>
IntToStr(n) == IF n < 0 THEN <<"-">> \o NatToStr(-n) ELSE NatToStr(n)

\* re.match(r"^(\d+)/(\d+)$", s) is not None, for s without a trailing newline
MatchesBpPattern(s) ==
    \E k \in 1..Len(s) :
        /\ s[k] = "/"
        /\ AllDigits(SubSeq(s, 1, k - 1))
        /\ AllDigits(SubSeq(s, k + 1, Len(s)))

-----------------------------------------------------------------------------
(* Python built-ins used by the sanitizer *)

Trunc100(h) == IF h >= 0 THEN h \div 100 ELSE -((-h) \div 100)

SignOf(s) == IF Len(s) > 0 /\ s[1] = "-" THEN -1 ELSE 1
Unsigned(s) == IF Len(s) > 0 /\ s[1] \in {"+", "-"} THEN Tail(s) ELSE s

\* int(x)
py_int(v) ==
    CASE v.t = "str" ->
            LET body == str_strip(v.s)
            IN  IF AllDigits(Unsigned(body))
                THEN PyInt(SignOf(body) * DigitsValue(Unsigned(body)))
                ELSE Exc("ValueError")
      [] v.t \in {"int", "bool"} -> PyInt(v.i)
      [] v.t = "hugeint" -> v
      [] v.t = "float" -> PyInt(Trunc100(v.i))
      [] v.t = "nan" -> Exc("ValueError")
      [] v.t = "inf" -> Exc("OverflowError")
      [] OTHER -> Exc("TypeError")

\* the two fractional digits of a decimal literal's fraction part, in hundredths
Frac100(f) ==
    IF Len(f) = 0 THEN 0
    ELSE IF Len(f) = 1 THEN 10 * DigitVal(f[1])
    ELSE 10 * DigitVal(f[1]) + DigitVal(f[2])

\* float(s) for a string: a decimal literal without exponent, or nan / inf / infinity
ParseFloat(s) ==
    LET body == str_strip(s)
        mag == Unsigned(body)
        parts == str_split(mag, ".")
        ip == parts[1]
        fp == IF Len(parts) = 2 THEN parts[2] ELSE <<>>
    IN  IF str_upper(mag) = <<"N", "A", "N">> THEN NaN
        ELSE IF str_upper(mag) \in {<<"I", "N", "F">>, <<"I", "N", "F", "I", "N", "I", "T", "Y">>}
        THEN Val("inf", SignOf(body), <<>>)
        ELSE IF /\ Len(parts) <= 2
                /\ Len(ip) + Len(fp) > 0
                /\ (Len(ip) = 0 \/ AllDigits(ip))
                /\ (Len(fp) = 0 \/ AllDigits(fp))
        THEN PyFloat(SignOf(body) * (100 * DigitsValue(ip) + Frac100(fp)))
        ELSE Exc("ValueError")

\* float(x)
py_float(v) ==
    CASE v.t = "str" -> ParseFloat(v.s)
      [] v.t \in {"int", "bool"} -> PyFloat(100 * v.i)
      [] v.t = "hugeint" -> Exc("OverflowError")
      [] v.t \in {"float", "nan", "inf"} -> v
      [] OTHER -> Exc("TypeError")

AbsInt(n) == IF n < 0 THEN -n ELSE n

\* repr of a finite float in hundredths: "99.6", "98.65", "120.0"
FloatToStr(h) ==
    LET a == AbsInt(h)
        f == a % 100
        fs == IF f % 10 = 0 THEN <<Digits[(f \div 10) + 1]>>
              ELSE <<Digits[(f \div 10) + 1], Digits[(f % 10) + 1]>>
    IN  (IF h < 0 THEN <<"-">> ELSE <<>>) \o NatToStr(a \div 100) \o <<".">> \o fs

\* str(x)
py_str(v) ==
    CASE v.t = "str" -> v.s
      [] v.t = "NoneType" -> <<"N", "o", "n", "e">>
      [] v.t = "bool" -> IF v.i = 1 THEN <<"T", "r", "u", "e">> ELSE <<"F", "a", "l", "s", "e">>
      [] v.t = "int" -> IntToStr(v.i)
      [] v.t = "hugeint" -> <<"1", "0", "0", "0", "0">>   \* stands for its hundreds of digits
      [] v.t = "float" -> FloatToStr(v.i)
      [] v.t = "nan" -> <<"n", "a", "n">>
      [] v.t = "inf" -> IF v.i < 0 THEN <<"-", "i", "n", "f">> ELSE <<"i", "n", "f">>
      [] v.t = "list" -> <<"[", "]">>
      [] OTHER -> <<"{", "}">>

\* x is None or x == ""
NoneOrEmpty(v) == v.t = "NoneType" \/ (v.t = "str" /\ v.s = <<>>)

-----------------------------------------------------------------------------
(* sanitizer.py *)

BpPlaceholders ==
    { <<"N", "/", "A">>, <<"N", "A">>, <<"I", "N", "V", "A", "L", "I", "D">>,
      <<"U", "N", "K", "N", "O", "W", "N">>,
      <<"I", "N", "V", "A", "L", "I", "D", "_", "B", "P", "_", "F", "O", "R", "M", "A", "T">> }

TempPlaceholders ==
    { <<"T", "E", "M", "P", "_", "E", "R", "R", "O", "R">>,
      <<"I", "N", "V", "A", "L", "I", "D">>, <<"U", "N", "K", "N", "O", "W", "N">>,
      <<"N", "/", "A">>, <<"N", "A">> }

\* variant: the value is returned as it came, not stripped
validate_blood_pressure_unstripped(bp_value) ==
    IF NoneOrEmpty(bp_value) THEN None
    ELSE LET bp_str == str_strip(py_str(bp_value))
         IN  IF str_upper(bp_str) \in BpPlaceholders THEN None
             ELSE IF ~MatchesBpPattern(bp_str) THEN None
             ELSE PyStr(py_str(bp_value))

validate_blood_pressure(bp_value) ==
    IF NoneOrEmpty(bp_value) THEN None
    ELSE LET bp_str == str_strip(py_str(bp_value))
         IN  IF str_upper(bp_str) \in BpPlaceholders THEN None
             ELSE IF ~MatchesBpPattern(bp_str) THEN None
             ELSE PyStr(bp_str)

validate_age(age_value) ==
    IF NoneOrEmpty(age_value) THEN None
    ELSE LET age == py_int(age_value)
         IN  IF age.t \in {"ValueError", "TypeError"} THEN None ELSE age

validate_temperature(temp_value) ==
    IF NoneOrEmpty(temp_value) THEN None
    ELSE LET temp_str == str_upper(str_strip(py_str(temp_value)))
         IN  IF temp_str \in TempPlaceholders THEN None
             ELSE LET temp == py_float(temp_value)
                  IN  IF temp.t \in {"ValueError", "TypeError"} THEN None ELSE temp

\* patient.py
Patient(patient_id, age, blood_pressure, temperature) ==
    [patient_id |-> patient_id, age |-> age,
     blood_pressure |-> blood_pressure, temperature |-> temperature]

NoPatient == Patient(None, None, None, None)

\* variant: the age is not carried over
to_dict_without_age(p) ==
    [is_map |-> TRUE, patient_id |-> p.patient_id, age |-> None,
     blood_pressure |-> p.blood_pressure, temperature |-> p.temperature]

\* Patient.to_dict: a mapping with the four keys present
to_dict(p) ==
    [is_map |-> TRUE, patient_id |-> p.patient_id, age |-> p.age,
     blood_pressure |-> p.blood_pressure, temperature |-> p.temperature]

\* dict.get(key): None when the key is absent
dict_get(v) == IF v.t = "missing" THEN None ELSE v

\* The result is [exc, value]: exc is "" and value the Patient, or exc names the
\* exception that leaves sanitize_patient.
sanitize_patient(patient_data) ==
    IF ~patient_data.is_map THEN [exc |-> "AttributeError", value |-> NoPatient]
    ELSE LET patient_id == dict_get(patient_data.patient_id)
             age == validate_age(dict_get(patient_data.age))
             blood_pressure == validate_blood_pressure(dict_get(patient_data.blood_pressure))
             temperature == validate_temperature(dict_get(patient_data.temperature))
         IN  IF IsExc(age) THEN [exc |-> age.t, value |-> NoPatient]
             ELSE IF IsExc(temperature) THEN [exc |-> temperature.t, value |-> NoPatient]
             ELSE [exc |-> "",
                   value |-> Patient(PyStr(py_str(patient_id)), age, blood_pressure, temperature)]

-----------------------------------------------------------------------------
(* Python numbers: isinstance and ordering, with a threshold c in hundredths *)

IsNumber(v) == v.t \in {"int", "bool", "float", "nan", "inf", "hugeint"}
Num100(v) == IF v.t = "float" THEN v.i ELSE 100 * v.i

py_le(v, c) ==
    CASE v.t = "nan" -> FALSE
      [] v.t = "inf" -> v.i < 0
      [] v.t = "hugeint" -> FALSE
      [] OTHER -> Num100(v) <= c
py_ge(v, c) ==
    CASE v.t = "nan" -> FALSE
      [] v.t = "inf" -> v.i > 0
      [] v.t = "hugeint" -> TRUE
      [] OTHER -> Num100(v) >= c
py_lt(v, c) ==
    CASE v.t = "nan" -> FALSE
      [] v.t = "inf" -> v.i < 0
      [] v.t = "hugeint" -> FALSE
      [] OTHER -> Num100(v) < c
py_gt(v, c) ==
    CASE v.t = "nan" -> FALSE
      [] v.t = "inf" -> v.i > 0
      [] v.t = "hugeint" -> TRUE
      [] OTHER -> Num100(v) > c

Max2(a, b) == IF a >= b THEN a ELSE b

-----------------------------------------------------------------------------
(* risk_scorer.py *)

\* variant: 120 still counts as normal
systolic_risk_late(systolic) ==
    IF systolic <= 120 THEN 0
    ELSE IF 120 <= systolic /\ systolic <= 129 THEN 1
    ELSE IF 130 <= systolic /\ systolic <= 139 THEN 2
    ELSE 3

systolic_risk(systolic) ==
    IF systolic < 120 THEN 0
    ELSE IF 120 <= systolic /\ systolic <= 129 THEN 1
    ELSE IF 130 <= systolic /\ systolic <= 139 THEN 2
    ELSE 3

diastolic_risk(diastolic) ==
    IF diastolic < 80 THEN 0
    ELSE IF 80 <= diastolic /\ diastolic <= 89 THEN 2
    ELSE 3

calculate_bp_risk(bp) ==
    IF NoneOrEmpty(bp) \/ bp.t # "str" THEN 0
    ELSE LET parts == str_split(bp.s, "/")
         IN  IF Len(parts) # 2 THEN 0
             ELSE LET systolic == py_int(PyStr(str_strip(parts[1])))
                      diastolic == py_int(PyStr(str_strip(parts[2])))
                  IN  IF IsExc(systolic) \/ IsExc(diastolic) THEN 0
                      ELSE Max2(systolic_risk(systolic.i), diastolic_risk(diastolic.i))

calculate_temp_risk(temperature) ==
    IF temperature.t = "NoneType" \/ ~IsNumber(temperature) THEN 0
    ELSE IF py_le(temperature, 9950) THEN 0
    ELSE IF py_ge(temperature, 9960) /\ py_le(temperature, 10090) THEN 1
    ELSE 2

calculate_age_risk(age) ==
    IF age.t = "NoneType" \/ ~IsNumber(age) THEN 0
    ELSE IF py_lt(age, 4000) THEN 0
    ELSE IF py_ge(age, 4000) /\ py_le(age, 6500) THEN 1
    ELSE 2

\* variant: the age sub-score is left out of the sum
calculate_total_risk_no_age(p) ==
    calculate_bp_risk(p.blood_pressure) + calculate_temp_risk(p.temperature)

calculate_total_risk(p) ==
    calculate_bp_risk(p.blood_pressure) + calculate_temp_risk(p.temperature)
        + calculate_age_risk(p.age)

get_risk_breakdown(p) ==
    LET bp_score == calculate_bp_risk(p.blood_pressure)
        temp_score == calculate_temp_risk(p.temperature)
        age_score == calculate_age_risk(p.age)
        total_score == bp_score + temp_score + age_score
    IN  [patient_id |-> p.patient_id, bp_score |-> bp_score, temp_score |-> temp_score,
         age_score |-> age_score, total_score |-> total_score]

-----------------------------------------------------------------------------
(* high_risk_classifier.py, fever_classifier.py, data_quality.py *)

\* variant: the threshold is exclusive
is_high_risk_above(p) == calculate_total_risk(p) > 4

is_high_risk(p) == calculate_total_risk(p) >= 4

RECURSIVE get_high_risk_patients(_)
get_high_risk_patients(ps) ==
    IF Len(ps) = 0 THEN <<>>
    ELSE LET rest == get_high_risk_patients(SubSeq(ps, 1, Len(ps) - 1))
             p == ps[Len(ps)]
         IN  IF is_high_risk(p) THEN Append(rest, p.patient_id) ELSE rest

\* variant: the boundary value itself is left out
has_fever_above(p) ==
    /\ p.temperature.t # "NoneType"
    /\ IsNumber(p.temperature)
    /\ py_gt(p.temperature, 9960)

has_fever(p) ==
    /\ p.temperature.t # "NoneType"
    /\ IsNumber(p.temperature)
    /\ py_ge(p.temperature, 9960)

RECURSIVE get_fever_patients(_)
get_fever_patients(ps) ==
    IF Len(ps) = 0 THEN <<>>
    ELSE LET rest == get_fever_patients(SubSeq(ps, 1, Len(ps) - 1))
             p == ps[Len(ps)]
         IN  IF has_fever(p) THEN Append(rest, p.patient_id) ELSE rest

is_valid_bp(bp) ==
    IF bp.t = "NoneType" \/ bp.t # "str" THEN FALSE
    ELSE LET parts == str_split(bp.s, "/")
         IN  IF Len(parts) # 2 THEN FALSE
             ELSE LET systolic == py_int(PyStr(str_strip(parts[1])))
                      diastolic == py_int(PyStr(str_strip(parts[2])))
                  IN  IF IsExc(systolic) \/ IsExc(diastolic) THEN FALSE
                      ELSE IF systolic.i <= 0 \/ systolic.i > 300
                              \/ diastolic.i <= 0 \/ diastolic.i > 200
                      THEN FALSE
                      ELSE TRUE

is_valid_age(age) ==
    IF age.t = "NoneType" \/ ~IsNumber(age) THEN FALSE
    ELSE IF py_lt(age, 0) \/ py_gt(age, 15000) THEN FALSE
    ELSE TRUE

is_valid_temperature(temperature) ==
    IF temperature.t = "NoneType" \/ ~IsNumber(temperature) THEN FALSE
    ELSE IF py_le(temperature, 0) \/ py_gt(temperature, 11500) THEN FALSE
    ELSE TRUE

has_issue(p) ==
    \/ ~is_valid_bp(p.blood_pressure)
    \/ ~is_valid_age(p.age)
    \/ ~is_valid_temperature(p.temperature)

RECURSIVE get_data_quality_issues(_)
get_data_quality_issues(ps) ==
    IF Len(ps) = 0 THEN <<>>
    ELSE LET rest == get_data_quality_issues(SubSeq(ps, 1, Len(ps) - 1))
             p == ps[Len(ps)]
         IN  IF has_issue(p) THEN Append(rest, p.patient_id) ELSE rest

-----------------------------------------------------------------------------
(* Inputs: raw field values an upstream page can carry *)

S_P1 == <<"P", "1">>
S_P2 == <<"P", "2">>

RawAges ==
    { Missing, None, PyStr(<<>>), PyStr(<<"u", "n", "k", "n", "o", "w", "n">>),
      PyStr(<<"4", "5">>), PyStr(<<" ", "4", "0", " ">>), PyStr(<<"4", ".", "5">>),
      PyStr(<<"-", "1">>), PyBool(TRUE), PyInt(-1), PyInt(0), PyInt(39), PyInt(40),
      PyInt(65), PyInt(66), PyInt(150), PyInt(151), HugeInt,
      PyFloat(4570), PyFloat(-390), NaN, PosInf, NegInf, PyList, PyDict }

RawBps ==
    { Missing, None, PyStr(<<>>), PyStr(<<"N", "/", "A">>), PyStr(<<"n", "/", "a", " ">>),
      PyStr(<<"N", "A">>), PyStr(<<"I", "N", "V", "A", "L", "I", "D">>),
      PyStr(<<"u", "n", "k", "n", "o", "w", "n">>),
      PyStr(<<"1", "2", "0", "/", "8", "0">>), PyStr(<<" ", "1", "1", "9", "/", "7", "9", " ">>),
      PyStr(<<"1", "5", "0", "/">>), PyStr(<<"/", "9", "0">>), PyStr(<<"/">>),
      PyStr(<<"1", "2", "0", "/", "8", "0", "/", "1">>), PyStr(<<"1", "2", "a", "/", "8", "0">>),
      PyStr(<<"1", "2", "0", " ", "/", "8", "0">>), PyStr(<<"1", "2", "0">>),
      PyStr(<<"0", "/", "8", "0">>), PyStr(<<"1", "2", "0", "/", "0">>),
      PyStr(<<"3", "0", "0", "/", "2", "0", "0">>), PyStr(<<"3", "0", "1", "/", "8", "0">>),
      PyStr(<<"1", "2", "0", "/", "2", "0", "1">>), PyStr(<<"1", "3", "5", "/", "7", "9">>),
      PyStr(<<"1", "4", "0", "/", "7", "9">>), PyStr(<<"1", "1", "9", "/", "9", "0">>),
      PyInt(120), PyFloat(12000), PyBool(TRUE), PyList, PyDict }

RawTemps ==
    { Missing, None, PyStr(<<>>), PyStr(<<"T", "E", "M", "P", "_", "E", "R", "R", "O", "R">>),
      PyStr(<<"t", "e", "m", "p", "_", "e", "r", "r", "o", "r">>), PyStr(<<"N", "/", "A">>),
      PyStr(<<" ", "n", "a", " ">>), PyStr(<<"a", "b", "c">>),
      PyStr(<<"9", "8", ".", "6">>), PyStr(<<" ", "9", "9", ".", "6", " ">>),
      PyStr(<<"9", "9", ".", "5", "5">>), PyStr(<<"1", "0", "1">>), PyStr(<<".", "5">>),
      PyStr(<<"1", ".", "2", ".", "3">>), PyStr(<<"n", "a", "n">>), PyStr(<<"N", "a", "N">>),
      PyStr(<<"i", "n", "f">>), PyStr(<<"-", "I", "n", "f", "i", "n", "i", "t", "y">>),
      PyBool(TRUE), PyInt(0), PyInt(99), PyInt(115), PyInt(116), HugeInt,
      PyFloat(-100), PyFloat(0), PyFloat(1), PyFloat(9860), PyFloat(9950), PyFloat(9955),
      PyFloat(9960), PyFloat(10090), PyFloat(10095), PyFloat(10100), PyFloat(11500),
      PyFloat(11501), NaN, PosInf, NegInf, PyList, PyDict }

RawIds == { PyStr(S_P1), PyInt(7), Missing }

RawRecord(id, age, bp, temp) ==
    [is_map |-> TRUE, patient_id |-> id, age |-> age, blood_pressure |-> bp,
     temperature |-> temp]

\* a `data` element that is no mapping
NotAMapping == [is_map |-> FALSE, patient_id |-> Missing, age |-> Missing,
                blood_pressure |-> Missing, temperature |-> Missing]

RawRecords ==
    { RawRecord(id, a, b, t) : id \in RawIds, a \in RawAges, b \in RawBps, t \in RawTemps }
        \cup { NotAMapping }

NoFlags == [high_risk |-> <<>>, fever |-> <<>>, data_quality |-> <<>>]
NotSanitized == [exc |-> "", value |-> NoPatient]

-----------------------------------------------------------------------------
(* Inputs: what the upstream can answer to GET <base>/patients?page=<n> *)

\* A JSON body: t is the type of the body; for a mapping has_data / has_pagination
\* say whether the key is present (for a list: whether that string is an element,
\* for a string: whether it is a substring).  data is [t, items], pagination is
\* [t, hasNext] with hasNext one of "true", "false", "absent".
Body(t, has_data, data, has_pagination, pagination) ==
    [t |-> t, has_data |-> has_data, data |-> data,
     has_pagination |-> has_pagination, pagination |-> pagination]

DataList(items) == [t |-> "list", items |-> items]
Pagination(hasNext) == [t |-> "dict", hasNext |-> hasNext]
NoData == [t |-> "NoneType", items |-> <<>>]
NoPagination == [t |-> "NoneType", hasNext |-> "absent"]

CleanRecord == RawRecord(PyStr(S_P1), PyInt(45), PyStr(<<"1", "2", "0", "/", "8", "0">>), PyFloat(9960))
DirtyRecord == RawRecord(PyStr(S_P2), PyStr(<<"4", "5">>), PyStr(<<"N", "/", "A">>),
                         PyStr(<<"T", "E", "M", "P", "_", "E", "R", "R", "O", "R">>))
InfiniteAgeRecord == RawRecord(PyStr(S_P2), PosInf, None, PyFloat(9860))

PageItems == { <<CleanRecord>>, <<DirtyRecord, CleanRecord>> }

WellFormedBodies ==
    { Body("dict", TRUE, DataList(items), TRUE, Pagination(hn)) :
        items \in PageItems, hn \in {"true", "false"} }
    \cup { Body("dict", TRUE, DataList(<<CleanRecord>>), TRUE, Pagination("absent")),
           Body("dict", TRUE, DataList(<<CleanRecord>>), FALSE, NoPagination),
           Body("dict", FALSE, NoData, TRUE, Pagination("true")) }

\* bodies that do not have the expected shape, and one record the sanitizer
\* cannot convert
MalformedBodies ==
    { Body("NoneType", FALSE, NoData, FALSE, NoPagination),
      Body("list", FALSE, NoData, FALSE, NoPagination),
      Body("str", TRUE, NoData, FALSE, NoPagination),
      Body("dict", TRUE, NoData, TRUE, Pagination("true")),
      Body("dict", TRUE, [t |-> "dict", items |-> <<NotAMapping>>], TRUE, Pagination("true")),
      Body("dict", TRUE, DataList(<<CleanRecord, NotAMapping>>), TRUE, Pagination("true")),
      Body("dict", TRUE, DataList(<<CleanRecord, InfiniteAgeRecord>>), TRUE, Pagination("false")),
      Body("dict", TRUE, DataList(<<CleanRecord>>), TRUE, NoPagination) }

Bodies == WellFormedBodies \cup MalformedBodies

StatusCodes == { 200, 204, 404, 429, 503 }

-----------------------------------------------------------------------------
(* routes.py getPatients *)

max_retries == 10
backoff_factor == 1
MaxPages == 2

RECURSIVE Pow2(_)
Pow2(n) == IF n = 0 THEN 1 ELSE 2 * Pow2(n - 1)

\* routes.py:93-95: sanitize and append each element until one raises
RECURSIVE sanitize_all(_, _)
sanitize_all(items, acc) ==
    IF Len(items) = 0 THEN [exc |-> "", all_patients |-> acc]
    ELSE LET r == sanitize_patient(Head(items))
         IN  IF r.exc # "" THEN [exc |-> r.exc, all_patients |-> acc]
             ELSE sanitize_all(Tail(items), Append(acc, to_dict(r.value)))

\* routes.py:90-95
extract_data(body, acc) ==
    IF body.t \in {"NoneType", "int"} THEN [exc |-> "TypeError", all_patients |-> acc]
    ELSE IF ~body.has_data THEN [exc |-> "", all_patients |-> acc]
    ELSE IF body.t # "dict" THEN [exc |-> "TypeError", all_patients |-> acc]
    ELSE IF body.data.t \in {"NoneType", "int"} THEN [exc |-> "TypeError", all_patients |-> acc]
    ELSE sanitize_all(body.data.items, acc)

\* routes.py:98-105
read_pagination(body) ==
    IF ~body.has_pagination THEN [exc |-> "", has_next |-> FALSE]
    ELSE IF body.t # "dict" THEN [exc |-> "TypeError", has_next |-> FALSE]
    ELSE IF body.pagination.t # "dict" THEN [exc |-> "AttributeError", has_next |-> FALSE]
    ELSE [exc |-> "", has_next |-> (body.pagination.hasNext = "true")]

\* the for statement of routes.py:81 taking its next value, or running out
NextAttempt ==
    IF attempt + 1 < max_retries
    THEN attempt' = attempt + 1 /\ pc' = "attempt"
    ELSE attempt' = attempt /\ pc' = "page_end"

\* routes.py:83: one GET for the current page is answered with `code`
Request(code) ==
    /\ pc = "attempt"
    /\ page <= MaxPages
    /\ requested' = IF nreq = 0 THEN Append(requested, page) ELSE requested
    /\ nreq' = nreq + 1
    /\ all_ok' = (all_ok /\ code = 200)
    /\ status' = code
    /\ seen' = seen \cup {code}

\* routes.py:85-107
Respond200 ==
    \E body \in Bodies :
        /\ Request(200)
        /\ served' = Append(served, [page |-> page, body |-> body])
        /\ LET d == extract_data(body, all_patients)
               pg == read_pagination(body)
           IN  /\ all_patients' = d.all_patients
               /\ IF d.exc # "" \/ pg.exc # ""
                  THEN pc' = "raised" /\ has_next' = has_next
                  ELSE pc' = "page_end" /\ has_next' = pg.has_next
        /\ UNCHANGED <<page, delays, attempt, waits, rvars, bvars>>

rate_limit_wait(n) == 2 * Pow2(n)

\* variant: the delay grows linearly instead of doubling
backoff_wait_linear(n) == backoff_factor * 2 * n

backoff_wait(n) == backoff_factor * Pow2(n)

\* routes.py:108-112
RespondRateLimited ==
    /\ Request(429)
    /\ waits' = Append(waits, rate_limit_wait(attempt))
    /\ NextAttempt
    /\ UNCHANGED <<page, delays, has_next, all_patients, served, rvars, bvars>>

\* routes.py:113-117
RespondServerError ==
    \E code \in StatusCodes :
        /\ code # 200 /\ code # 429
        /\ code >= 500 /\ attempt < max_retries - 1
        /\ Request(code)
        /\ waits' = Append(waits, backoff_wait(attempt))
        /\ NextAttempt
        /\ UNCHANGED <<page, delays, has_next, all_patients, served, rvars, bvars>>

\* variant: a client error is retried like a server error
RespondFailed_retried ==
    \E code \in StatusCodes :
        /\ code # 200 /\ code # 429
        /\ ~(code >= 500 /\ attempt < max_retries - 1)
        /\ Request(code)
        /\ waits' = Append(waits, backoff_wait(attempt))
        /\ NextAttempt
        /\ UNCHANGED <<page, delays, has_next, all_patients, served, rvars, bvars>>

\* routes.py:118-122
RespondFailed ==
    \E code \in StatusCodes :
        /\ code # 200 /\ code # 429
        /\ ~(code >= 500 /\ attempt < max_retries - 1)
        /\ Request(code)
        /\ has_next' = FALSE
        /\ pc' = "page_end"
        /\ UNCHANGED <<page, delays, attempt, all_patients, waits, served, rvars, bvars>>

\* routes.py:124-128: requests.get raised a RequestException (status 0)
RequestErrorRetry ==
    /\ attempt < max_retries - 1
    /\ Request(0)
    /\ waits' = Append(waits, backoff_wait(attempt))
    /\ NextAttempt
    /\ UNCHANGED <<page, delays, has_next, all_patients, served, rvars, bvars>>

\* variant: the last failed attempt leaves has_next as it was
RequestErrorFinal_continues ==
    /\ ~(attempt < max_retries - 1)
    /\ Request(0)
    /\ has_next' = has_next
    /\ pc' = "page_end"
    /\ UNCHANGED <<page, delays, attempt, all_patients, waits, served, rvars, bvars>>

\* routes.py:129-134
RequestErrorFinal ==
    /\ ~(attempt < max_retries - 1)
    /\ Request(0)
    /\ has_next' = FALSE
    /\ pc' = "page_end"
    /\ UNCHANGED <<page, delays, attempt, all_patients, waits, served, rvars, bvars>>

\* variant: the page counter is not advanced
EndPage_same_page ==
    /\ pc = "page_end"
    /\ page <= MaxPages
    /\ page' = page
    /\ IF has_next
       THEN /\ pc' = "attempt" /\ attempt' = 0
            /\ nreq' = 0 /\ seen' = {} /\ waits' = <<>> /\ status' = 0
       ELSE pc' = "done" /\ UNCHANGED <<attempt, nreq, seen, waits, status>>
    /\ delays' = IF has_next THEN delays + 1 ELSE delays
    /\ UNCHANGED <<has_next, all_patients, requested, all_ok, served, rvars, bvars>>

\* variant: the attempt counter is carried over to the next page
EndPage_keeps_attempt ==
    /\ pc = "page_end"
    /\ page <= MaxPages
    /\ page' = page + 1
    /\ IF has_next
       THEN /\ pc' = "attempt" /\ attempt' = attempt
            /\ nreq' = 0 /\ seen' = {} /\ waits' = <<>> /\ status' = 0
       ELSE pc' = "done" /\ UNCHANGED <<attempt, nreq, seen, waits, status>>
    /\ delays' = IF has_next THEN delays + 1 ELSE delays
    /\ UNCHANGED <<has_next, all_patients, requested, all_ok, served, rvars, bvars>>

\* variant: the inter-page sleep is taken whatever has_next is
EndPage_always_sleeps ==
    /\ pc = "page_end"
    /\ page <= MaxPages
    /\ page' = page + 1
    /\ IF has_next
       THEN /\ pc' = "attempt" /\ attempt' = 0
            /\ nreq' = 0 /\ seen' = {} /\ waits' = <<>> /\ status' = 0
       ELSE pc' = "done" /\ UNCHANGED <<attempt, nreq, seen, waits, status>>
    /\ delays' = delays + 1
    /\ UNCHANGED <<has_next, all_patients, requested, all_ok, served, rvars, bvars>>

\* routes.py:136-140 and the loop test of routes.py:77; on leaving the loop the
\* call returns all_patients as the result's data (routes.py:144-145)
EndPage ==
    /\ pc = "page_end"
    /\ page <= MaxPages
    /\ page' = page + 1
    /\ IF has_next
       THEN /\ pc' = "attempt" /\ attempt' = 0
            /\ nreq' = 0 /\ seen' = {} /\ waits' = <<>> /\ status' = 0
       ELSE pc' = "done" /\ UNCHANGED <<attempt, nreq, seen, waits, status>>
    /\ delays' = IF has_next THEN delays + 1 ELSE delays
    /\ UNCHANGED <<has_next, all_patients, requested, all_ok, served, rvars, bvars>>

Init ==
    /\ pc = "attempt" /\ page = 1 /\ has_next = TRUE /\ attempt = 0 /\ all_patients = <<>>
    /\ requested = <<>> /\ nreq = 0 /\ all_ok = TRUE
    /\ status = 0 /\ seen = {} /\ waits = <<>> /\ served = <<>> /\ delays = 0
    /\ rpc = "idle" /\ raw = NotAMapping /\ patient = NoPatient /\ flags = NoFlags
    /\ resanitized = NotSanitized
    /\ bpc = "idle" /\ patients = <<>>
    /\ high_risk_ids = <<>> /\ fever_ids = <<>> /\ data_quality_ids = <<>>
    /\ totals = <<>> /\ breakdowns = <<>>

Next ==
    \/ Respond200
    \/ RespondRateLimited
    \/ RespondServerError
    \/ RespondFailed
    \/ RequestErrorRetry
    \/ RequestErrorFinal
    \/ EndPage

Spec == Init /\ [][Next]_vars

\* Pages past MaxPages.  The upstream answers 200 only for its MaxPages pages;
\* a later page is answered 429 or 404.  The program does not look at the page
\* number, so page = MaxPages + 1 stands for every later page and the history
\* of requested pages and sleeps is not continued there.
RequestPast(code) ==
    /\ pc = "attempt"
    /\ page > MaxPages
    /\ nreq' = nreq + 1
    /\ all_ok' = FALSE
    /\ status' = code
    /\ seen' = seen \cup {code}
    /\ UNCHANGED requested

\* routes.py:108-112
RateLimitedPast ==
    /\ RequestPast(429)
    /\ waits' = Append(waits, rate_limit_wait(attempt))
    /\ NextAttempt
    /\ UNCHANGED <<page, delays, has_next, all_patients, served, rvars, bvars>>

\* routes.py:118-122
FailedPast ==
    /\ RequestPast(404)
    /\ has_next' = FALSE
    /\ pc' = "page_end"
    /\ UNCHANGED <<page, delays, attempt, all_patients, waits, served, rvars, bvars>>

\* routes.py:136-140 and the loop test of routes.py:77
EndPagePast ==
    /\ pc = "page_end"
    /\ page > MaxPages
    /\ IF has_next
       THEN /\ pc' = "attempt" /\ attempt' = 0
            /\ nreq' = 0 /\ seen' = {} /\ waits' = <<>> /\ status' = 0
       ELSE pc' = "done" /\ UNCHANGED <<attempt, nreq, seen, waits, status>>
    /\ UNCHANGED <<page, delays, has_next, all_patients, requested, all_ok, served,
                   rvars, bvars>>

LiveNext ==
    \/ Respond200
    \/ RespondRateLimited
    \/ RespondServerError
    \/ RespondFailed
    \/ RequestErrorRetry
    \/ RequestErrorFinal
    \/ EndPage
    \/ RateLimitedPast
    \/ FailedPast
    \/ EndPagePast

\* the call keeps running: an enabled step of getPatients is eventually taken
LiveSpec == Init /\ [][LiveNext]_vars /\ WF_vars(LiveNext)

-----------------------------------------------------------------------------
(* Properties of getPatients *)

FiveXX == { c \in StatusCodes : c >= 500 /\ c <= 599 }
FourXX == { c \in StatusCodes : c >= 400 /\ c <= 499 /\ c # 429 }
Last(s) == s[Len(s)]

\* what a 200 body offers: its records, and whether it announces a further page
ItemsOf(body) ==
    IF body.t = "dict" /\ body.has_data /\ body.data.t = "list" THEN body.data.items ELSE <<>>
AnnouncesNext(body) ==
    /\ body.t = "dict" /\ body.has_pagination
    /\ body.pagination.t = "dict" /\ body.pagination.hasNext = "true"

SanitizedPage(items) == [k \in 1..Len(items) |-> to_dict(sanitize_patient(items[k]).value)]

\* the sanitized records of the 200 responses, in the order they were answered
RECURSIVE ExpectedData(_)
ExpectedData(sv) ==
    IF Len(sv) = 0 THEN <<>>
    ELSE ExpectedData(SubSeq(sv, 1, Len(sv) - 1)) \o SanitizedPage(ItemsOf(Last(sv).body))

\* the page whose retry loop was left last
ResolvedPage == IF pc = "done" THEN page - 1 ELSE page

\* C1: while every request is answered 200, the requests are for pages 1, 2, ...
\* in order, one per page, a page is requested only after the page before it
\* announced hasNext=true, and the call returns after the first page that does
\* not, with the sanitized records of all pages in page and in-page order.
C1_HappyPath ==
    all_ok =>
        /\ requested = [k \in 1..Len(requested) |-> k]
        /\ nreq <= 1
        /\ \A k \in 1..Len(served) :
              /\ served[k].page = k
              /\ k < Len(served) => AnnouncesNext(served[k].body)
        /\ pc = "page_end" => has_next = AnnouncesNext(Last(served).body)
        /\ pc = "done" =>
              /\ Len(requested) = Len(served)
              /\ ~AnnouncesNext(Last(served).body)
              /\ all_patients = ExpectedData(served)

C1_Witness ==
    /\ pc = "done" /\ all_ok /\ requested = <<1, 2>>
    /\ Len(served) = 2 /\ Len(all_patients) = 3
    /\ all_patients[1].patient_id = PyStr(S_P2) /\ all_patients[3].patient_id = PyStr(S_P1)

\* C2: when the attempts of a page are used up and the last one was answered
\* 429, pagination stops: has_next is false.
C2_RateLimitExhaustionStops ==
    (pc \in {"page_end", "done"} /\ nreq = max_retries /\ status = 429) => has_next = FALSE

\* C3: a page answered 200 after N-1 answers of 5xx took exactly N requests, with
\* waits backoff_factor * 2^k for k = 0..N-2 (strictly increasing); its records
\* are appended once and has_next is that response's hasNext.
C3_RetryThenSuccess ==
    (pc = "page_end" /\ status = 200 /\ seen \subseteq ({200} \cup FiveXX)) =>
        /\ nreq >= 1 /\ nreq <= max_retries
        /\ Len(waits) = nreq - 1
        /\ \A k \in 0..(nreq - 2) : waits[k + 1] = backoff_factor * (2 ^ k)
        /\ \A k \in 1..(Len(waits) - 1) : waits[k] < waits[k + 1]
        /\ Last(served).page = page
        /\ all_patients = ExpectedData(served)
        /\ has_next = AnnouncesNext(Last(served).body)

C3_Witness ==
    /\ pc = "page_end" /\ status = 200 /\ seen = {200, 503}
    /\ nreq = max_retries /\ page = 2 /\ Len(all_patients) = 3

\* C4: when all max_retries attempts of a page fail with 5xx or a transport
\* error, the page is abandoned: has_next is false, it is the last page
\* requested, and the data are the records of the pages answered before it.
C4_ExhaustionAbandons ==
    (pc \in {"page_end", "done"} /\ nreq = max_retries /\ seen \subseteq ({0} \cup FiveXX)) =>
        /\ has_next = FALSE
        /\ Last(requested) = ResolvedPage
        /\ Len(waits) = max_retries - 1
        /\ \A k \in 1..Len(served) : served[k].page < ResolvedPage
        /\ all_patients = ExpectedData(served)

C4_Witness ==
    /\ pc = "done" /\ nreq = max_retries /\ seen = {0, 503}
    /\ requested = <<1, 2>> /\ Len(served) = 1 /\ Len(all_patients) = 2

\* C5: a 4xx answer other than 429 ends the retry loop at once (no retry, no
\* sleep after it), is the last request of the run, makes has_next false and
\* leaves the accumulated records as they were.
C5_ClientErrorAbandons ==
    status \in FourXX =>
        /\ pc \in {"page_end", "done"}
        /\ has_next = FALSE
        /\ Len(waits) = nreq - 1
        /\ Last(requested) = ResolvedPage
        /\ \A k \in 1..Len(served) : served[k].page < ResolvedPage
        /\ all_patients = ExpectedData(served)

C5_Witness ==
    /\ pc = "done" /\ status = 404 /\ nreq = 3
    /\ requested = <<1, 2>> /\ Len(all_patients) = 2

\* C6: no exception escapes getPatients.
C6_NoExceptionEscapes == pc # "raised"

\* C16: the accumulated records are those of pages 1..k, each page once and in
\* page order, with no page left out, whatever the upstream answered.
C16_ContiguousPrefix ==
    pc # "raised" =>
        /\ \A k \in 1..Len(served) : served[k].page = k
        /\ all_patients = ExpectedData(served)

\* C17: the call ends, by returning or by raising.  The upstream answers 200
\* with hasNext=true at most once for each of its MaxPages pages, so on every
\* run finitely often.
C17_Terminates == <>(pc \in {"done", "raised"})

\* C18: a page gets at most max_retries requests whatever the failures are;
\* every request of a page uses one value of the attempt counter, which
\* starts at 0 on every page, so the k-th wait of a page is
\* backoff_factor * 2^(k-1), or 2 * 2^(k-1) after a 429.
C18_BoundedRetries ==
    /\ nreq <= max_retries
    /\ attempt \in 0..(max_retries - 1)
    /\ pc = "attempt" => nreq = attempt
    /\ Len(waits) <= nreq
    /\ \A k \in 1..Len(waits) : waits[k] \in {backoff_factor * (2 ^ (k - 1)), 2 * (2 ^ (k - 1))}
    /\ (status = 429 /\ nreq > 0) => (Len(waits) = nreq /\ Last(waits) = 2 * (2 ^ (nreq - 1)))

C18_Witness ==
    /\ pc = "page_end" /\ page = 2 /\ nreq = max_retries
    /\ seen = {0, 429, 503} /\ status = 429
    /\ Len(waits) = max_retries /\ waits[1] = backoff_factor /\ waits[2] = 4

\* C20: one inter-page sleep is taken between two consecutive pages and none
\* after the page that ends the run: the number of sleeps is the number of
\* pages requested less one.
C20_InterPageDelay ==
    /\ pc \in {"attempt", "page_end", "raised"} => delays = page - 1
    /\ (pc \in {"attempt", "page_end", "raised"} /\ nreq > 0) => delays = Len(requested) - 1
    /\ pc = "done" => (~has_next /\ delays = page - 2 /\ delays = Len(requested) - 1)

C20_Witness ==
    /\ pc = "done" /\ delays = 1 /\ requested = <<1, 2>>
    /\ nreq = max_retries /\ status = 0 /\ Len(served) = 1

-----------------------------------------------------------------------------
(* One raw record through sanitize_patient and the three classifiers *)

Sanitize ==
    /\ rpc = "raw"
    /\ LET r == sanitize_patient(raw)
       IN  IF r.exc # ""
           THEN rpc' = "raised" /\ patient' = patient
           ELSE rpc' = "sanitized" /\ patient' = r.value
    /\ UNCHANGED <<raw, flags, resanitized, fvars, bvars>>

\* main.py:61-69 on the one-patient list
ClassifyRecord ==
    /\ rpc = "sanitized"
    /\ flags' = [high_risk |-> get_high_risk_patients(<<patient>>),
                 fever |-> get_fever_patients(<<patient>>),
                 data_quality |-> get_data_quality_issues(<<patient>>)]
    /\ rpc' = "classified"
    /\ UNCHANGED <<raw, patient, resanitized, fvars, bvars>>

\* the sanitized record is written out with to_dict and sanitized again
Resanitize ==
    /\ rpc = "sanitized"
    /\ resanitized' = sanitize_patient(to_dict(patient))
    /\ rpc' = "resanitized"
    /\ UNCHANGED <<raw, patient, flags, fvars, bvars>>

RecordInit ==
    /\ rpc = "raw" /\ raw \in RawRecords /\ patient = NoPatient /\ flags = NoFlags
    /\ resanitized = NotSanitized
    /\ pc = "idle" /\ page = 1 /\ has_next = TRUE /\ attempt = 0 /\ all_patients = <<>>
    /\ requested = <<>> /\ nreq = 0 /\ all_ok = TRUE
    /\ status = 0 /\ seen = {} /\ waits = <<>> /\ served = <<>> /\ delays = 0
    /\ bpc = "idle" /\ patients = <<>>
    /\ high_risk_ids = <<>> /\ fever_ids = <<>> /\ data_quality_ids = <<>>
    /\ totals = <<>> /\ breakdowns = <<>>

RecordNext ==
    \/ Sanitize
    \/ ClassifyRecord
    \/ Resanitize

SpecRecord == RecordInit /\ [][RecordNext]_vars

-----------------------------------------------------------------------------
(* Properties of one record *)

\* C7: sanitize_patient returns a Patient for every raw mapping, whatever the
\* values of age, blood_pressure and temperature; it never raises.
C7_SanitizerTotal == raw.is_map => rpc # "raised"

\* the validity rules as the classifier's contract states them
BpInRange(bp) ==
    /\ bp.t = "str"
    /\ \E k \in 1..Len(bp.s) :
          /\ bp.s[k] = "/"
          /\ AllDigits(SubSeq(bp.s, 1, k - 1))
          /\ AllDigits(SubSeq(bp.s, k + 1, Len(bp.s)))
          /\ LET systolic == DigitsValue(SubSeq(bp.s, 1, k - 1))
                 diastolic == DigitsValue(SubSeq(bp.s, k + 1, Len(bp.s)))
             IN  0 < systolic /\ systolic <= 300 /\ 0 < diastolic /\ diastolic <= 200
AgeInRange(age) == age.t = "int" /\ 0 <= age.i /\ age.i <= 150
TempInRange(temperature) ==
    temperature.t = "float" /\ 0 < temperature.i /\ temperature.i <= 11500

\* C8: a patient is flagged exactly when blood pressure, age or temperature
\* fails its range rule; in particular with a NaN temperature.
C8_DataQualityIff ==
    rpc = "classified" =>
        (flags.data_quality = <<patient.patient_id>>
            <=> ~(BpInRange(patient.blood_pressure) /\ AgeInRange(patient.age)
                    /\ TempInRange(patient.temperature)))

\* the same statement for every temperature but NaN
C8_ExceptNaN ==
    (rpc = "classified" /\ patient.temperature.t # "nan") =>
        /\ Len(flags.data_quality) <= 1
        /\ flags.data_quality = <<patient.patient_id>>
             <=> ~(BpInRange(patient.blood_pressure) /\ AgeInRange(patient.age)
                     /\ TempInRange(patient.temperature))

NoSpace(s) == \A k \in 1..Len(s) : ~IsSpace(s[k])
IsDigitsSlashDigits(s) ==
    \E k \in 2..(Len(s) - 1) :
        /\ s[k] = "/"
        /\ \A j \in 1..Len(s) : j # k => IsDigit(s[j])

\* C14: a sanitized record has a string patient_id, an age that is None or an
\* integer, a blood pressure that is None or a whitespace-free string
\* digits "/" digits that is no placeholder token, and a temperature that is
\* None or a float.
C14_CanonicalRecord ==
    rpc \in {"sanitized", "classified", "resanitized"} =>
        /\ patient.patient_id.t = "str"
        /\ patient.age.t \in {"NoneType", "int", "hugeint"}
        /\ \/ patient.blood_pressure = None
           \/ /\ patient.blood_pressure.t = "str"
              /\ NoSpace(patient.blood_pressure.s)
              /\ IsDigitsSlashDigits(patient.blood_pressure.s)
              /\ str_upper(patient.blood_pressure.s) \notin BpPlaceholders
        /\ patient.temperature.t \in {"NoneType", "float", "nan", "inf"}

C14_Witness ==
    /\ rpc = "sanitized"
    /\ raw.patient_id = Missing /\ patient.patient_id = PyStr(<<"N", "o", "n", "e">>)
    /\ raw.age = PyFloat(4570) /\ patient.age = PyInt(45)
    /\ raw.blood_pressure = PyStr(<<" ", "1", "1", "9", "/", "7", "9", " ">>)
    /\ patient.blood_pressure = PyStr(<<"1", "1", "9", "/", "7", "9">>)
    /\ raw.temperature = PyInt(99) /\ patient.temperature = PyFloat(9900)

\* C15: sanitizing the to_dict form of a sanitized record gives the same
\* patient_id, age, blood_pressure and temperature.
C15_Idempotent ==
    rpc = "resanitized" => (resanitized.exc = "" /\ resanitized.value = patient)

C15_Witness ==
    /\ rpc = "resanitized"
    /\ raw.patient_id = PyInt(7) /\ resanitized.value.patient_id = PyStr(<<"7">>)
    /\ raw.age = PyStr(<<" ", "4", "0", " ">>) /\ resanitized.value.age = PyInt(40)
    /\ raw.blood_pressure = PyStr(<<" ", "1", "1", "9", "/", "7", "9", " ">>)
    /\ resanitized.value.blood_pressure = PyStr(<<"1", "1", "9", "/", "7", "9">>)
    /\ raw.temperature = PyStr(<<" ", "9", "9", ".", "6", " ">>)
    /\ resanitized.value.temperature = PyFloat(9960)

-----------------------------------------------------------------------------
(* A batch of patients through the three classifiers *)

MaxBatch == 3

BatchAges == { None, PyInt(45) }
BatchBps == { Missing, PyStr(<<"1", "2", "0", "/", "8", "0">>) }
BatchTemps == { None, PyFloat(9950), PyStr(<<"9", "9", ".", "6">>), PyStr(<<"n", "a", "n">>) }
BatchIds == { PyStr(S_P1), PyStr(S_P2) }

BatchRecords ==
    { RawRecord(id, a, b, t) : id \in BatchIds, a \in BatchAges, b \in BatchBps, t \in BatchTemps }

\* main.py:44-51 for one more sanitized record
Ingest ==
    /\ bpc = "ingest"
    /\ Len(patients) < MaxBatch
    /\ \E r \in BatchRecords :
          /\ sanitize_patient(r).exc = ""
          /\ patients' = Append(patients, sanitize_patient(r).value)
    /\ UNCHANGED <<bpc, high_risk_ids, fever_ids, data_quality_ids, totals, breakdowns,
                   fvars, rvars>>

\* main.py:61-69
RunClassifiers ==
    /\ bpc = "ingest"
    /\ high_risk_ids' = get_high_risk_patients(patients)
    /\ fever_ids' = get_fever_patients(patients)
    /\ data_quality_ids' = get_data_quality_issues(patients)
    /\ bpc' = "classified"
    /\ UNCHANGED <<patients, totals, breakdowns, fvars, rvars>>

BatchInit ==
    /\ bpc = "ingest" /\ patients = <<>>
    /\ high_risk_ids = <<>> /\ fever_ids = <<>> /\ data_quality_ids = <<>>
    /\ totals = <<>> /\ breakdowns = <<>>
    /\ pc = "idle" /\ page = 1 /\ has_next = TRUE /\ attempt = 0 /\ all_patients = <<>>
    /\ requested = <<>> /\ nreq = 0 /\ all_ok = TRUE
    /\ status = 0 /\ seen = {} /\ waits = <<>> /\ served = <<>> /\ delays = 0
    /\ rpc = "idle" /\ raw = NotAMapping /\ patient = NoPatient /\ flags = NoFlags
    /\ resanitized = NotSanitized

BatchNext == Ingest \/ RunClassifiers

SpecBatch == BatchInit /\ [][BatchNext]_vars

-----------------------------------------------------------------------------
(* Properties of a batch *)

IdsOf(ps) == [k \in 1..Len(ps) |-> ps[k].patient_id]

TotalAtLeast4(p) == calculate_total_risk(p) >= 4

\* C9: the high-risk ids are the ids of the patients whose total risk is at
\* least 4, in input order, once per occurrence.
C9_HighRiskSubsequence ==
    bpc = "classified" => high_risk_ids = IdsOf(SelectSeq(patients, TotalAtLeast4))

C9_Witness ==
    /\ bpc = "classified" /\ Len(patients) = 3
    /\ calculate_total_risk(patients[1]) = 4
    /\ calculate_total_risk(patients[2]) = 3
    /\ calculate_total_risk(patients[3]) = 4
    /\ patients[1].patient_id = patients[3].patient_id
    /\ high_risk_ids = <<patients[1].patient_id, patients[1].patient_id>>

\* temperature is not None and temperature >= 99.6, on the values a sanitized
\* temperature takes
AtLeast996(p) ==
    \/ p.temperature.t = "float" /\ p.temperature.i >= 9960
    \/ p.temperature = PosInf

\* C10: the fever ids are the ids of the patients whose temperature is present
\* and at least 99.6, whatever their blood pressure and age, in input order,
\* once per occurrence.
C10_FeverIff ==
    bpc = "classified" => fever_ids = IdsOf(SelectSeq(patients, AtLeast996))

C10_Witness ==
    /\ bpc = "classified" /\ Len(patients) = 3
    /\ patients[1].temperature = PyFloat(9960)
    /\ patients[2].temperature = PyFloat(9950)
    /\ patients[3].temperature = PyFloat(9960)
    /\ patients[1].patient_id = patients[3].patient_id
    /\ calculate_total_risk(patients[1]) < 4
    /\ fever_ids = <<patients[1].patient_id, patients[1].patient_id>>

-----------------------------------------------------------------------------
(* Patients through the risk scorer *)

TempSpan == 85

\* temperatures in hundredths of a degree across all four thresholds, and the
\* values that are not finite floats
ScoreTemps ==
    { PyFloat(h) : h \in (10025 - TempSpan)..(10025 + TempSpan) }
        \cup { None, NaN, PosInf, NegInf, PyInt(99), PyInt(100), PyInt(101), PyBool(TRUE),
               PyStr(<<"1", "0", "1", ".", "0">>), PyList }

BoundaryBps ==
    { PyStr(NatToStr(sy) \o <<"/">> \o NatToStr(di)) :
        sy \in {119, 120, 129, 130, 139, 140}, di \in {79, 80, 89, 90} }

ScoreBps ==
    BoundaryBps
        \cup { None, PyStr(<<>>), PyStr(<<"a", "b", "c">>), PyStr(<<"1", "2", "0">>),
               PyStr(<<"1", "2", "0", "/">>), PyStr(<<"/", "8", "0">>),
               PyStr(<<"1", "2", "a", "/", "8", "0">>),
               PyStr(<<"1", "4", "0", "/", "9", "0", "/", "1">>),
               PyStr(<<"0", "/", "0">>), PyStr(<<"9", "9", "9", "/", "9", "9", "9">>),
               PyInt(140), PyList }

ScoreAges ==
    { None, PyInt(39), PyInt(40), PyInt(65), PyInt(66), PyFloat(6550), PyStr(<<"7", "0">>) }

\* one patient with every combination of fields, or two patients that differ
\* in temperature only
ScoreBatches ==
    { <<Patient(PyStr(S_P1), a, b, t)>> : a \in ScoreAges, b \in ScoreBps, t \in ScoreTemps }
        \cup { <<Patient(PyStr(S_P1), None, None, t1), Patient(PyStr(S_P2), None, None, t2)>> :
                 t1 \in ScoreTemps, t2 \in ScoreTemps }

\* calculate_total_risk and get_risk_breakdown for every patient
\* (high_risk_classifier.py:31-32, test_classifiers.py:50-51)
Score ==
    /\ bpc = "classified"
    /\ totals' = [k \in 1..Len(patients) |-> calculate_total_risk(patients[k])]
    /\ breakdowns' = [k \in 1..Len(patients) |-> get_risk_breakdown(patients[k])]
    /\ bpc' = "scored"
    /\ UNCHANGED <<patients, high_risk_ids, fever_ids, data_quality_ids, fvars, rvars>>

ScoreInit ==
    /\ bpc = "ingest" /\ patients \in ScoreBatches
    /\ high_risk_ids = <<>> /\ fever_ids = <<>> /\ data_quality_ids = <<>>
    /\ totals = <<>> /\ breakdowns = <<>>
    /\ pc = "idle" /\ page = 1 /\ has_next = TRUE /\ attempt = 0 /\ all_patients = <<>>
    /\ requested = <<>> /\ nreq = 0 /\ all_ok = TRUE
    /\ status = 0 /\ seen = {} /\ waits = <<>> /\ served = <<>> /\ delays = 0
    /\ rpc = "idle" /\ raw = NotAMapping /\ patient = NoPatient /\ flags = NoFlags
    /\ resanitized = NotSanitized

ScoreNext ==
    \/ RunClassifiers
    \/ Score

SpecScore == ScoreInit /\ [][ScoreNext]_vars

-----------------------------------------------------------------------------
(* Properties of the risk scorer *)

IsFinite(v) == v.t \in {"int", "bool", "float"}

\* C11: the temperature sub-score is 0 for T <= 99.5, 1 for 99.6 <= T <= 100.9,
\* 2 for T >= 101.0 and 0 for None or a non-number; it is 2 only for
\* T >= 101.0 and 1 only for 99.6 <= T <= 100.9.
C11_TempRiskBuckets ==
    bpc = "scored" =>
        \A k \in 1..Len(patients) :
            LET t == patients[k].temperature
                r == breakdowns[k].temp_score
            IN  /\ ~IsNumber(t) => r = 0
                /\ IsFinite(t) =>
                      /\ Num100(t) <= 9950 => r = 0
                      /\ (9960 <= Num100(t) /\ Num100(t) <= 10090) => r = 1
                      /\ Num100(t) >= 10100 => r = 2
                /\ t = PosInf => r = 2
                /\ t = NegInf => r = 0
                /\ r = 2 => (t = PosInf \/ (IsFinite(t) /\ Num100(t) >= 10100))
                /\ r = 1 => (IsFinite(t) /\ 9960 <= Num100(t) /\ Num100(t) <= 10090)

\* the three documented ranges alone: every value inside one of them gets the
\* documented score
C11_DocumentedRanges ==
    bpc = "scored" =>
        \A k \in 1..Len(patients) :
            LET t == patients[k].temperature
                r == breakdowns[k].temp_score
            IN  /\ ~IsNumber(t) => r = 0
                /\ IsFinite(t) =>
                      /\ Num100(t) <= 9950 => r = 0
                      /\ (9960 <= Num100(t) /\ Num100(t) <= 10090) => r = 1
                      /\ Num100(t) >= 10100 => r = 2

\* the documented buckets
SystolicBucket(sy) ==
    IF sy < 120 THEN 0 ELSE IF sy <= 129 THEN 1 ELSE IF sy <= 139 THEN 2 ELSE 3
DiastolicBucket(di) == IF di < 80 THEN 0 ELSE IF di <= 89 THEN 2 ELSE 3

SlashAt(bp) == CHOOSE k \in 1..Len(bp.s) : bp.s[k] = "/"
SystolicOf(bp) == DigitsValue(SubSeq(bp.s, 1, SlashAt(bp) - 1))
DiastolicOf(bp) == DigitsValue(SubSeq(bp.s, SlashAt(bp) + 1, Len(bp.s)))
IsReading(bp) == bp.t = "str" /\ MatchesBpPattern(bp.s)

TempLeq(t1, t2) ==
    /\ IsNumber(t1) /\ IsNumber(t2) /\ t1 # NaN /\ t2 # NaN
    /\ \/ t1 = NegInf
       \/ t2 = PosInf
       \/ (IsFinite(t1) /\ IsFinite(t2) /\ Num100(t1) <= Num100(t2))

\* C19: the temperature sub-score does not decrease when the temperature
\* rises, and a patient's temperature sub-score is at least 1 exactly when the
\* fever classifier lists the patient.
C19_TempRiskMonotone ==
    bpc = "scored" =>
        /\ \A j, k \in 1..Len(patients) :
              TempLeq(patients[j].temperature, patients[k].temperature)
                  => breakdowns[j].temp_score <= breakdowns[k].temp_score
        /\ \A k \in 1..Len(patients) :
              breakdowns[k].temp_score >= 1
                  <=> \E m \in 1..Len(fever_ids) : fever_ids[m] = patients[k].patient_id

====
